---- MODULE Spec2Model ----
(***************************************************************************)
(* Model of tiktoken_ai.py: the process-wide registry of encoding          *)
(* constructors contributed by plugin modules, and the lazily built cache  *)
(* of Encoding objects, used by several threads through get_encoding and   *)
(* list_encoding_names under one re-entrant lock.                          *)
(***************************************************************************)
EXTENDS Integers, Sequences, FiniteSets, TLC

\* ---------------------------------------------------------------- bounds
NumThreads == 2      \* threads calling the public operations
MaxCalls == 3        \* public-operation calls made in one run, all threads together
MaxPlugins == 2      \* plugin modules found under tiktoken_ext
MaxScanPlugins == 3  \* plugin modules found, in the runs that only list the names
MaxFairPlugins == 1  \* plugin modules found, in the runs under fair scheduling

Threads == 1..NumThreads
NoThread == 0
Names == {"x", "y"}                  \* encoding names plugins register and callers ask for
NoObj == 0                           \* no Encoding object
ModNames == <<"tiktoken_ext.a", "tiktoken_ext.b", "tiktoken_ext.c", "tiktoken_ext.d">>
ModName(i) == ModNames[i]            \* the module name pkgutil yields at rank i of the scan

\* A plugin module, as the registry sees it:
\*   "ok"             imports and defines ENCODING_CONSTRUCTORS (encs, in dict order)
\*   "noattr"         imports, defines no ENCODING_CONSTRUCTORS
\*   "importerr"      importing it raises ImportError
\*   "import_attrerr" importing it raises AttributeError from its own code
PluginKinds == {"ok", "noattr", "importerr", "import_attrerr"}
EncLists == {<<"x">>, <<"y">>, <<"x", "y">>}
PluginShapes ==
    {[kind |-> "ok", encs |-> e] : e \in EncLists}
      \cup {[kind |-> k, encs |-> <<>>] : k \in PluginKinds \ {"ok"}}
PluginSets == UNION {[1..n -> PluginShapes] : n \in 0..MaxPlugins}
ScanPluginSets == UNION {[1..n -> PluginShapes] : n \in 0..MaxScanPlugins}
FairPluginSets == UNION {[1..n -> PluginShapes] : n \in 0..MaxFairPlugins}

VARIABLES
    PLUGINS,                 \* the plugin modules of the process environment, in scan order
    ENCODINGS,               \* name -> Encoding object, NoObj for a name that is not a key
    ENCODING_CONSTRUCTORS,   \* [isNone, items]: None, or the dict as its (name, module) items in insertion order
    lock,                    \* the RLock: [owner, count]
    pc, op, arg,             \* per thread: position, running operation, encoding_name
    modIdx, itemIdx,         \* per thread: the two loop positions of _find_constructors (0: not run by this call)
    ret,                     \* per thread: what the last call returned or raised
    calls,                   \* calls started so far
    nextObj,                 \* identities handed out to the Encoding objects built so far
    factoryCalls, builderCalls,  \* per name: invocations of constructor() and of Encoding(...)
    built,                   \* per name: the Encoding objects the builder has produced
    failed,                  \* per name: constructions ended by an exception of the factory or the builder
    importCalls,             \* per module: importlib.import_module calls
    buildError,              \* the exception that ended the first failed table build (NoRet: none)
    returned,                \* per name: the objects get_encoding has returned
    firstStored,             \* per name: the object first stored in ENCODINGS (NoObj: none)
    callWrites,              \* per thread: the names the running call stored in ENCODINGS
    callInvoked              \* per thread: the names whose factory or builder the running call invoked

vars == <<PLUGINS, ENCODINGS, ENCODING_CONSTRUCTORS, lock, pc, op, arg, modIdx, itemIdx,
          ret, calls, nextObj, factoryCalls, builderCalls, built, failed, importCalls,
          buildError, returned, firstStored, callWrites, callInvoked>>

\* ---------------------------------------------------------------- values
NoneTable == [isNone |-> TRUE, items |-> <<>>]
EmptyTable == [isNone |-> FALSE, items |-> <<>>]
FreeLock == [owner |-> NoThread, count |-> 0]

Cached == {n \in Names : ENCODINGS[n] # NoObj}      \* the keys of ENCODINGS
TableNames(tbl) == {tbl.items[k][1] : k \in 1..Len(tbl.items)}
TableNameList(tbl) == [k \in 1..Len(tbl.items) |-> tbl.items[k][1]]

available_plugin_modules == [i \in 1..Len(PLUGINS) |-> ModName(i)]

NoRet == [kind |-> "none", exc |-> "", cause |-> "", name |-> "", mod |-> "",
          obj |-> NoObj, path |-> "", lockHeld |-> FALSE, midBuild |-> FALSE,
          names |-> <<>>,
          plugins |-> <<>>]
ReturnEncoding(name, o, path) ==
    [NoRet EXCEPT !.kind = "Encoding", !.name = name, !.obj = o, !.path = path]
ReturnNames(ns) == [NoRet EXCEPT !.kind = "names", !.names = ns]
DuplicateEncodingName(name, m) ==
    [NoRet EXCEPT !.kind = "DuplicateEncodingName", !.exc = "ValueError", !.name = name, !.mod = m]
MalformedPlugin(m) ==
    [NoRet EXCEPT !.kind = "MalformedPlugin", !.exc = "ValueError", !.cause = "AttributeError", !.mod = m]
PluginLoadFailure(m) ==
    [NoRet EXCEPT !.kind = "PluginLoadFailure", !.exc = "ImportError", !.cause = "ImportError", !.mod = m]
\* Variant: the message lists the registered encoding names, not the plugin modules.
UnknownEncoding_ListsNames(name) ==
    [NoRet EXCEPT !.kind = "UnknownEncoding", !.exc = "ValueError", !.name = name,
                  !.plugins = [k \in 1..Len(ENCODING_CONSTRUCTORS.items) |->
                                 ENCODING_CONSTRUCTORS.items[k][1]]]
UnknownEncoding(name) ==
    [NoRet EXCEPT !.kind = "UnknownEncoding", !.exc = "ValueError", !.name = name,
                  !.plugins = available_plugin_modules]
FactoryError(name) == [NoRet EXCEPT !.kind = "FactoryError", !.exc = "Exception", !.name = name]
BuilderError(name) == [NoRet EXCEPT !.kind = "BuilderError", !.exc = "Exception", !.name = name]

BuildErrorKinds == {"DuplicateEncodingName", "MalformedPlugin", "PluginLoadFailure"}
ConstructErrorKinds == {"FactoryError", "BuilderError"}

\* ---------------------------------------------------------------- the lock
\* Variant: a plain Lock, which its owner cannot take a second time.
CanAcquire_NotReentrant(t) == lock.owner = NoThread

CanAcquire(t) == lock.owner \in {NoThread, t}
Acquire(t) == [owner |-> t, count |-> lock.count + 1]
Release(l) == IF l.count <= 1 THEN FreeLock ELSE [l EXCEPT !.count = @ - 1]

\* Variant: the lock is taken and given back by hand, and an exception skips the release.
Raise_KeepsLock(t, err, depth) ==
    /\ pc' = [pc EXCEPT ![t] = "done"]
    /\ ret' = [ret EXCEPT ![t] = err]
    /\ lock' = lock
    /\ buildError' = IF buildError = NoRet /\ err.kind \in BuildErrorKinds
                      THEN err ELSE buildError
    /\ failed' = IF err.kind \in ConstructErrorKinds
                  THEN [failed EXCEPT ![err.name] = @ + 1] ELSE failed

\* ---------------------------------------------------------------- leaving a call
\* An exception leaves `depth` with-blocks of the raising thread, then reaches the caller.
Raise(t, err, depth) ==
    /\ pc' = [pc EXCEPT ![t] = "done"]
    /\ ret' = [ret EXCEPT ![t] = err]
    /\ lock' = IF depth = 2 THEN Release(Release(lock))
               ELSE IF depth = 1 THEN Release(lock) ELSE lock
    /\ buildError' = IF buildError = NoRet /\ err.kind \in BuildErrorKinds
                      THEN err ELSE buildError
    /\ failed' = IF err.kind \in ConstructErrorKinds
                  THEN [failed EXCEPT ![err.name] = @ + 1] ELSE failed

\* the module globals after import, and no thread inside a call
Start ==
    /\ ENCODINGS = [n \in Names |-> NoObj]
    /\ ENCODING_CONSTRUCTORS = NoneTable
    /\ lock = FreeLock
    /\ pc = [t \in Threads |-> "idle"]
    /\ op = [t \in Threads |-> "none"]
    /\ arg = [t \in Threads |-> ""]
    /\ modIdx = [t \in Threads |-> 0]
    /\ itemIdx = [t \in Threads |-> 0]
    /\ ret = [t \in Threads |-> NoRet]
    /\ calls = 0
    /\ nextObj = 0
    /\ factoryCalls = [n \in Names |-> 0]
    /\ builderCalls = [n \in Names |-> 0]
    /\ built = [n \in Names |-> {}]
    /\ failed = [n \in Names |-> 0]
    /\ importCalls = [i \in 1..Len(PLUGINS) |-> 0]
    /\ buildError = NoRet
    /\ returned = [n \in Names |-> {}]
    /\ firstStored = [n \in Names |-> NoObj]
    /\ callWrites = [t \in Threads |-> {}]
    /\ callInvoked = [t \in Threads |-> {}]

Init == PLUGINS \in PluginSets /\ Start

\* the same start, in a process with up to MaxScanPlugins plugin modules
InitScan == PLUGINS \in ScanPluginSets /\ Start

\* the same start, in a process with up to MaxFairPlugins plugin modules
InitFair == PLUGINS \in FairPluginSets /\ Start

\* ---------------------------------------------------------------- get_encoding
\* return ENCODINGS[encoding_name]: from the fast path, which never touches the lock, or
\* from inside the with-block, which is entered and left in the same step. The result
\* records whether the lock was held when the fast path returned, and whether another
\* thread was constructing the name when the call went on to the lock.
ReturnCached(t, name, path) ==
    /\ pc' = [pc EXCEPT ![t] = "done"]
    /\ ret' = [ret EXCEPT ![t] =
                  [ReturnEncoding(name, ENCODINGS[name], path)
                     EXCEPT !.lockHeld = (path = "fast" /\ lock.owner # NoThread),
                            !.midBuild = (path # "fast" /\ ret[t].midBuild)]]
    /\ returned' = [returned EXCEPT ![name] = @ \cup {ENCODINGS[name]}]
    /\ lock' = lock

\* A thread is between two calls and may start one. Threads are numbered in the order of
\* their first calls: thread t makes its first call after thread t - 1 has made one.
MayCall(t) ==
    /\ pc[t] \in {"idle", "done"}
    /\ calls < MaxCalls
    /\ IF t = 1 \/ pc[t] = "done" THEN TRUE ELSE pc[t - 1] # "idle"

\* Variant: no look at ENCODINGS before the lock (lines 62-63 left out).
CallGet_NoFastPath(t, name) ==
    /\ MayCall(t)
    /\ calls' = calls + 1
    /\ op' = [op EXCEPT ![t] = "get"]
    /\ arg' = [arg EXCEPT ![t] = name]
    /\ callWrites' = [callWrites EXCEPT ![t] = {}]
    /\ callInvoked' = [callInvoked EXCEPT ![t] = {}]
    /\ pc' = [pc EXCEPT ![t] = "g_lock"]
    /\ ret' = [ret EXCEPT ![t] = NoRet]
    /\ modIdx' = [modIdx EXCEPT ![t] = 0]
    /\ itemIdx' = [itemIdx EXCEPT ![t] = 0]
    /\ UNCHANGED <<PLUGINS, ENCODINGS, ENCODING_CONSTRUCTORS, nextObj, factoryCalls,
                   builderCalls, built, importCalls, buildError, failed, firstStored,
                   returned, lock>>

\* lines 60-63: a thread calls get_encoding(name), which first looks in ENCODINGS without
\* the lock. The entries of ENCODINGS are never removed, so the membership test and the
\* subscript read the same entry.
CallGet(t, name) ==
    /\ MayCall(t)
    /\ calls' = calls + 1
    /\ op' = [op EXCEPT ![t] = "get"]
    /\ arg' = [arg EXCEPT ![t] = name]
    /\ callWrites' = [callWrites EXCEPT ![t] = {}]
    /\ callInvoked' = [callInvoked EXCEPT ![t] = {}]
    /\ IF name \in Cached
         THEN ReturnCached(t, name, "fast")
         ELSE /\ pc' = [pc EXCEPT ![t] = "g_lock"]
              /\ ret' = [ret EXCEPT ![t] =
                          [NoRet EXCEPT !.midBuild = \E u \in Threads \ {t} :
                                          /\ pc[u] \in {"g_factory", "g_build"}
                                          /\ arg[u] = name]]
              /\ UNCHANGED <<returned, lock>>
    /\ modIdx' = [modIdx EXCEPT ![t] = 0]
    /\ itemIdx' = [itemIdx EXCEPT ![t] = 0]
    /\ UNCHANGED <<PLUGINS, ENCODINGS, ENCODING_CONSTRUCTORS, nextObj, factoryCalls,
                   builderCalls, built, importCalls, buildError, failed, firstStored>>

\* Variant: get_encoding runs its slow path without taking the lock (no with-block).
GetLock_NoLock(t) ==
    /\ pc[t] = "g_lock"
    /\ IF arg[t] \in Cached
         THEN /\ ReturnCached(t, arg[t], "recheck")
         ELSE /\ lock' = lock
              /\ pc' = [pc EXCEPT ![t] =
                          IF ENCODING_CONSTRUCTORS.isNone THEN "f_enter" ELSE "g_lookup"]
              /\ UNCHANGED <<ret, returned>>
    /\ UNCHANGED <<PLUGINS, ENCODINGS, ENCODING_CONSTRUCTORS, op, arg, modIdx, itemIdx,
                   calls, nextObj, factoryCalls, builderCalls, built, importCalls, buildError,
                   failed, firstStored, callWrites, callInvoked>>

\* Variant: no second check of ENCODINGS once the lock is held (lines 66-67 left out).
GetLock_NoRecheck(t) ==
    /\ pc[t] = "g_lock"
    /\ CanAcquire(t)
    /\ lock' = Acquire(t)
    /\ pc' = [pc EXCEPT ![t] = IF ENCODING_CONSTRUCTORS.isNone THEN "f_enter" ELSE "g_lookup"]
    /\ UNCHANGED <<PLUGINS, ENCODINGS, ENCODING_CONSTRUCTORS, op, arg, modIdx, itemIdx,
                   ret, returned, calls, nextObj, factoryCalls, builderCalls, built,
                   importCalls, buildError, failed, firstStored, callWrites, callInvoked>>

\* lines 65-71: with _lock; the check of ENCODINGS again, inside the lock; then
\* _find_constructors() if ENCODING_CONSTRUCTORS is None
GetLock(t) ==
    /\ pc[t] = "g_lock"
    /\ CanAcquire(t)
    /\ IF arg[t] \in Cached
         THEN /\ ReturnCached(t, arg[t], "recheck")
         ELSE /\ lock' = Acquire(t)
              /\ pc' = [pc EXCEPT ![t] =
                          IF ENCODING_CONSTRUCTORS.isNone THEN "f_enter" ELSE "g_lookup"]
              /\ UNCHANGED <<ret, returned>>
    /\ UNCHANGED <<PLUGINS, ENCODINGS, ENCODING_CONSTRUCTORS, op, arg, modIdx, itemIdx,
                   calls, nextObj, factoryCalls, builderCalls, built, importCalls, buildError, failed,
                   firstStored, callWrites, callInvoked>>

\* Variant: a miss is remembered in ENCODINGS under the name before the error is raised.
GetLookup_CachesMiss(t) ==
    /\ pc[t] = "g_lookup"
    /\ IF arg[t] \notin TableNames(ENCODING_CONSTRUCTORS)
         THEN /\ Raise(t, UnknownEncoding(arg[t]), 1)
              /\ ENCODINGS' = [ENCODINGS EXCEPT ![arg[t]] = -1]
         ELSE /\ pc' = [pc EXCEPT ![t] = "g_factory"]
              /\ UNCHANGED <<ret, lock, buildError, failed, ENCODINGS>>
    /\ UNCHANGED <<PLUGINS, ENCODING_CONSTRUCTORS, op, arg, modIdx, itemIdx,
                   calls, nextObj, factoryCalls, builderCalls, built, importCalls, returned,
                   firstStored, callWrites, callInvoked>>

\* lines 73-78: an unknown name raises ValueError with the plugin modules found
GetLookup(t) ==
    /\ pc[t] = "g_lookup"
    /\ IF arg[t] \notin TableNames(ENCODING_CONSTRUCTORS)
         THEN Raise(t, UnknownEncoding(arg[t]), 1)
         ELSE /\ pc' = [pc EXCEPT ![t] = "g_factory"]
              /\ UNCHANGED <<ret, lock, buildError, failed>>
    /\ UNCHANGED <<PLUGINS, ENCODINGS, ENCODING_CONSTRUCTORS, op, arg, modIdx, itemIdx,
                   calls, nextObj, factoryCalls, builderCalls, built, importCalls, returned,
                   firstStored, callWrites, callInvoked>>

\* lines 80-81, constructor(): the plugin's factory runs, and returns or raises
GetFactory(t) ==
    /\ pc[t] = "g_factory"
    /\ factoryCalls' = [factoryCalls EXCEPT ![arg[t]] = @ + 1]
    /\ callInvoked' = [callInvoked EXCEPT ![t] = @ \cup {arg[t]}]
    /\ \E ok \in BOOLEAN :
         IF ok THEN /\ pc' = [pc EXCEPT ![t] = "g_build"]
                    /\ UNCHANGED <<ret, lock, buildError, failed>>
               ELSE Raise(t, FactoryError(arg[t]), 1)
    /\ UNCHANGED <<PLUGINS, ENCODINGS, ENCODING_CONSTRUCTORS, op, arg, modIdx, itemIdx,
                   calls, nextObj, builderCalls, built, importCalls, returned, firstStored,
                   callWrites>>

\* Variant: the new object is returned and never stored (line 82 left out).
Store_NotCached(t, name, e) ==
    /\ UNCHANGED <<ENCODINGS, firstStored, callWrites>>
    /\ pc' = [pc EXCEPT ![t] = "done"]
    /\ ret' = [ret EXCEPT ![t] = ReturnEncoding(name, e, "built")]
    /\ returned' = [returned EXCEPT ![name] = @ \cup {e}]
    /\ lock' = Release(lock)

\* lines 82-84: ENCODINGS[encoding_name] = enc; return enc (leaving the with-block)
Store(t, name, e) ==
    /\ ENCODINGS' = [ENCODINGS EXCEPT ![name] = e]
    /\ firstStored' = [firstStored EXCEPT ![name] = IF @ = NoObj THEN e ELSE @]
    /\ callWrites' = [callWrites EXCEPT ![t] = @ \cup {name}]
    /\ pc' = [pc EXCEPT ![t] = "done"]
    /\ ret' = [ret EXCEPT ![t] = [ReturnEncoding(name, e, "built")
                                    EXCEPT !.midBuild = ret[t].midBuild]]
    /\ returned' = [returned EXCEPT ![name] = @ \cup {e}]
    /\ lock' = Release(lock)

\* lines 81-84, enc = Encoding(**params): the builder makes a new object, which is
\* stored and returned, or it raises
GetBuild(t) ==
    /\ pc[t] = "g_build"
    /\ builderCalls' = [builderCalls EXCEPT ![arg[t]] = @ + 1]
    /\ callInvoked' = [callInvoked EXCEPT ![t] = @ \cup {arg[t]}]
    /\ \E ok \in BOOLEAN :
         IF ok THEN /\ nextObj' = nextObj + 1
                    /\ built' = [built EXCEPT ![arg[t]] = @ \cup {nextObj + 1}]
                    /\ Store(t, arg[t], nextObj + 1)
                    /\ UNCHANGED <<buildError, failed>>
               ELSE /\ Raise(t, BuilderError(arg[t]), 1)
                    /\ UNCHANGED <<nextObj, built, ENCODINGS, firstStored, callWrites, returned>>
    /\ UNCHANGED <<PLUGINS, ENCODING_CONSTRUCTORS, op, arg, modIdx, itemIdx, calls,
                   factoryCalls, importCalls>>

\* ---------------------------------------------------------------- _find_constructors
\* where _find_constructors returns to in its caller
AfterFind(t) == IF op[t] = "get" THEN "g_lookup" ELSE "l_list"

\* lines 34-39: with _lock, by a thread that holds it already (the lock is re-entrant);
\* return if the table exists, else ENCODING_CONSTRUCTORS = {} and start the scan
FindEnter(t) ==
    /\ pc[t] = "f_enter"
    /\ CanAcquire(t)
    /\ IF ~ENCODING_CONSTRUCTORS.isNone
         THEN /\ pc' = [pc EXCEPT ![t] = AfterFind(t)]
              /\ UNCHANGED <<lock, ENCODING_CONSTRUCTORS, modIdx>>
         ELSE /\ lock' = Acquire(t)
              /\ ENCODING_CONSTRUCTORS' = EmptyTable
              /\ modIdx' = [modIdx EXCEPT ![t] = 1]
              /\ pc' = [pc EXCEPT ![t] = "f_import"]
    /\ UNCHANGED <<PLUGINS, ENCODINGS, op, arg, itemIdx, ret, calls, nextObj,
                   factoryCalls, builderCalls, built, importCalls, buildError, failed, returned,
                   firstStored, callWrites, callInvoked>>

\* lines 39-42 and 51-58: the next module is imported and its ENCODING_CONSTRUCTORS read;
\* ImportError is raised again, AttributeError (from the import or from the missing
\* attribute) becomes the ValueError of a plugin that does not define ENCODING_CONSTRUCTORS
FindImport(t) ==
    /\ pc[t] = "f_import"
    /\ modIdx[t] <= Len(PLUGINS)
    /\ importCalls' = [importCalls EXCEPT ![modIdx[t]] = @ + 1]
    /\ CASE PLUGINS[modIdx[t]].kind = "importerr" ->
              /\ Raise(t, PluginLoadFailure(ModName(modIdx[t])), 2)
              /\ UNCHANGED itemIdx
         [] PLUGINS[modIdx[t]].kind \in {"import_attrerr", "noattr"} ->
              /\ Raise(t, MalformedPlugin(ModName(modIdx[t])), 2)
              /\ UNCHANGED itemIdx
         [] OTHER ->
              /\ itemIdx' = [itemIdx EXCEPT ![t] = 1]
              /\ pc' = [pc EXCEPT ![t] = "f_item"]
              /\ UNCHANGED <<ret, lock, buildError, failed>>
    /\ UNCHANGED <<PLUGINS, ENCODINGS, ENCODING_CONSTRUCTORS, op, arg, modIdx,
                   calls, nextObj, factoryCalls, builderCalls, built, returned, firstStored,
                   callWrites, callInvoked>>

\* Variant: a name that is already registered is registered again (the last module wins).
FindItem_Overwrites(t) ==
    /\ pc[t] = "f_item"
    /\ LET encs == PLUGINS[modIdx[t]].encs IN
       IF itemIdx[t] > Len(encs)
         THEN /\ modIdx' = [modIdx EXCEPT ![t] = @ + 1]
              /\ pc' = [pc EXCEPT ![t] = "f_import"]
              /\ UNCHANGED <<ENCODING_CONSTRUCTORS, itemIdx>>
         ELSE /\ ENCODING_CONSTRUCTORS' =
                   [ENCODING_CONSTRUCTORS EXCEPT
                      !.items = IF encs[itemIdx[t]] \in TableNames(ENCODING_CONSTRUCTORS)
                                  THEN [k \in 1..Len(@) |->
                                          IF @[k][1] = encs[itemIdx[t]]
                                            THEN <<encs[itemIdx[t]], ModName(modIdx[t])>>
                                            ELSE @[k]]
                                  ELSE Append(@, <<encs[itemIdx[t]], ModName(modIdx[t])>>)]
              /\ itemIdx' = [itemIdx EXCEPT ![t] = @ + 1]
              /\ UNCHANGED <<pc, modIdx>>
    /\ UNCHANGED <<PLUGINS, ENCODINGS, op, arg, calls, nextObj, factoryCalls,
                   builderCalls, built, importCalls, returned, firstStored, callWrites,
                   callInvoked, ret, lock, buildError, failed>>

\* lines 43-50: one (enc_name, constructor) item of the module: a name already in the
\* table raises ValueError, a new one is registered; after the last item, the next module
FindItem(t) ==
    /\ pc[t] = "f_item"
    /\ LET encs == PLUGINS[modIdx[t]].encs IN
       IF itemIdx[t] > Len(encs)
         THEN /\ modIdx' = [modIdx EXCEPT ![t] = @ + 1]
              /\ pc' = [pc EXCEPT ![t] = "f_import"]
              /\ UNCHANGED <<ENCODING_CONSTRUCTORS, itemIdx, ret, lock, buildError, failed>>
         ELSE IF encs[itemIdx[t]] \in TableNames(ENCODING_CONSTRUCTORS)
                THEN /\ Raise(t, DuplicateEncodingName(encs[itemIdx[t]], ModName(modIdx[t])), 2)
                     /\ UNCHANGED <<ENCODING_CONSTRUCTORS, itemIdx, modIdx>>
                ELSE /\ ENCODING_CONSTRUCTORS' =
                          [ENCODING_CONSTRUCTORS EXCEPT
                             !.items = Append(@, <<encs[itemIdx[t]], ModName(modIdx[t])>>)]
                     /\ itemIdx' = [itemIdx EXCEPT ![t] = @ + 1]
                     /\ UNCHANGED <<pc, modIdx, ret, lock, buildError, failed>>
    /\ UNCHANGED <<PLUGINS, ENCODINGS, op, arg, calls, nextObj, factoryCalls,
                   builderCalls, built, importCalls, returned, firstStored, callWrites,
                   callInvoked>>

\* Variant: the table built by the scan is not kept (it is None again on return).
FindDone_LosesTable(t) ==
    /\ pc[t] = "f_import"
    /\ modIdx[t] > Len(PLUGINS)
    /\ lock' = Release(lock)
    /\ pc' = [pc EXCEPT ![t] = IF op[t] = "get" THEN "g_lookup" ELSE "l_list"]
    /\ ENCODING_CONSTRUCTORS' = NoneTable
    /\ UNCHANGED <<PLUGINS, ENCODINGS, op, arg, modIdx, itemIdx,
                   ret, calls, nextObj, factoryCalls, builderCalls, built, importCalls,
                   buildError, failed, returned, firstStored, callWrites, callInvoked>>

\* line 39, the loop is over: _find_constructors leaves its with-block and returns
FindDone(t) ==
    /\ pc[t] = "f_import"
    /\ modIdx[t] > Len(PLUGINS)
    /\ lock' = Release(lock)
    /\ pc' = [pc EXCEPT ![t] = AfterFind(t)]
    /\ UNCHANGED <<PLUGINS, ENCODINGS, ENCODING_CONSTRUCTORS, op, arg, modIdx, itemIdx,
                   ret, calls, nextObj, factoryCalls, builderCalls, built, importCalls,
                   buildError, failed, returned, firstStored, callWrites, callInvoked>>

\* ---------------------------------------------------------------- list_encoding_names
\* line 86: a thread calls list_encoding_names()
CallList(t) ==
    /\ MayCall(t)
    /\ calls' = calls + 1
    /\ pc' = [pc EXCEPT ![t] = "l_lock"]
    /\ op' = [op EXCEPT ![t] = "list"]
    /\ arg' = [arg EXCEPT ![t] = ""]
    /\ ret' = [ret EXCEPT ![t] = NoRet]
    /\ callWrites' = [callWrites EXCEPT ![t] = {}]
    /\ callInvoked' = [callInvoked EXCEPT ![t] = {}]
    /\ modIdx' = [modIdx EXCEPT ![t] = 0]
    /\ itemIdx' = [itemIdx EXCEPT ![t] = 0]
    /\ UNCHANGED <<PLUGINS, ENCODINGS, ENCODING_CONSTRUCTORS, lock, nextObj, factoryCalls,
                   builderCalls, built, importCalls, buildError, failed, returned,
                   firstStored>>

\* lines 88-91: with _lock; _find_constructors() if ENCODING_CONSTRUCTORS is None
ListLock(t) ==
    /\ pc[t] = "l_lock"
    /\ CanAcquire(t)
    /\ lock' = Acquire(t)
    /\ pc' = [pc EXCEPT ![t] = IF ENCODING_CONSTRUCTORS.isNone THEN "f_enter" ELSE "l_list"]
    /\ UNCHANGED <<PLUGINS, ENCODINGS, ENCODING_CONSTRUCTORS, op, arg, modIdx, itemIdx,
                   ret, calls, nextObj, factoryCalls, builderCalls, built, importCalls,
                   buildError, failed, returned, firstStored, callWrites, callInvoked>>

\* Variant: listing the names also constructs and caches the first registered one.
ListNames_Constructs(t) ==
    /\ pc[t] = "l_list"
    /\ ret' = [ret EXCEPT ![t] = ReturnNames(TableNameList(ENCODING_CONSTRUCTORS))]
    /\ pc' = [pc EXCEPT ![t] = "done"]
    /\ lock' = Release(lock)
    /\ LET ns == TableNameList(ENCODING_CONSTRUCTORS) IN
       IF ns # <<>> /\ ns[1] \notin Cached
         THEN /\ ENCODINGS' = [ENCODINGS EXCEPT ![ns[1]] = nextObj + 1]
              /\ nextObj' = nextObj + 1
              /\ built' = [built EXCEPT ![ns[1]] = @ \cup {nextObj + 1}]
              /\ factoryCalls' = [factoryCalls EXCEPT ![ns[1]] = @ + 1]
              /\ builderCalls' = [builderCalls EXCEPT ![ns[1]] = @ + 1]
              /\ firstStored' = [firstStored EXCEPT ![ns[1]] = nextObj + 1]
         ELSE UNCHANGED <<ENCODINGS, nextObj, built, factoryCalls, builderCalls, firstStored>>
    /\ UNCHANGED <<PLUGINS, ENCODING_CONSTRUCTORS, op, arg, modIdx, itemIdx, calls,
                   importCalls, buildError, failed, returned, callWrites, callInvoked>>

\* lines 92-94: return list(ENCODING_CONSTRUCTORS), the keys in insertion order
ListNames(t) ==
    /\ pc[t] = "l_list"
    /\ ret' = [ret EXCEPT ![t] = ReturnNames(TableNameList(ENCODING_CONSTRUCTORS))]
    /\ pc' = [pc EXCEPT ![t] = "done"]
    /\ lock' = Release(lock)
    /\ UNCHANGED <<PLUGINS, ENCODINGS, ENCODING_CONSTRUCTORS, op, arg, modIdx, itemIdx,
                   calls, nextObj, factoryCalls, builderCalls, built, importCalls, buildError, failed,
                   returned, firstStored, callWrites, callInvoked>>

\* ---------------------------------------------------------------- the system
Next ==
    \E t \in Threads :
        \/ \E name \in Names : CallGet(t, name)
        \/ GetLock(t)
        \/ GetLookup(t)
        \/ GetFactory(t)
        \/ GetBuild(t)
        \/ FindEnter(t)
        \/ FindImport(t)
        \/ FindItem(t)
        \/ FindDone(t)
        \/ CallList(t)
        \/ ListLock(t)
        \/ ListNames(t)

Spec == Init /\ [][Next]_vars

\* the steps of thread t inside a call: every statement terminates (imports, factories
\* and the builder return or raise), and the scheduler runs a thread that can run
Run(t) ==
    \/ GetLock(t)
    \/ GetLookup(t)
    \/ GetFactory(t)
    \/ GetBuild(t)
    \/ FindEnter(t)
    \/ FindImport(t)
    \/ FindItem(t)
    \/ FindDone(t)
    \/ ListLock(t)
    \/ ListNames(t)

FairSpec == InitFair /\ [][Next]_vars /\ \A t \in Threads : WF_vars(Run(t))

\* The process when its threads only call list_encoding_names: the table build alone.
NextScan ==
    \E t \in Threads :
        \/ CallList(t)
        \/ ListLock(t)
        \/ FindEnter(t)
        \/ FindImport(t)
        \/ FindItem(t)
        \/ FindDone(t)
        \/ ListNames(t)

SpecScan == InitScan /\ [][NextScan]_vars

\* ---------------------------------------------------------------- properties
Done(t) == pc[t] = "done"
Constructing(t) == pc[t] \in {"g_factory", "g_build"}
\* the calls of get_encoding(n) that have returned an Encoding
ReturnedBy(n) == {t \in Threads : Done(t) /\ ret[t].kind = "Encoding" /\ ret[t].name = n}

\* C1 as stated: for every name, the factory is invoked at most once and the builder runs
\* at most once in the process, whatever the calls and their interleaving.
C1_InvokedAtMostOnce ==
    \A n \in Names : factoryCalls[n] <= 1 /\ builderCalls[n] <= 1

\* C1, amended: for every name the builder produces at most one Encoding; the factory and
\* the builder are never running for a name that is already cached; and each invocation
\* after the first follows a construction of that name that ended in an exception.
C1_ConstructedAtMostOnce ==
    /\ \A n \in Names :
         /\ Cardinality(built[n]) <= 1
         /\ factoryCalls[n] <= failed[n] + 1
         /\ builderCalls[n] <= failed[n] + 1
         /\ (n \in Cached => factoryCalls[n] = failed[n] + 1)
    /\ \A t \in Threads : Constructing(t) => arg[t] \notin Cached

\* two threads asked for the same name while it was not cached; one built it and the
\* other found it on the check inside the lock; the factory ran once
C1_Witness ==
    \E n \in Names : \E t, u \in Threads :
        /\ t # u /\ {t, u} \subseteq ReturnedBy(n)
        /\ ret[t].path = "built" /\ ret[u].path = "recheck"
        /\ factoryCalls[n] = 1 /\ builderCalls[n] = 1

\* C2: all get_encoding(name) calls that return, by the fast path or inside the lock,
\* return the same object, the one first stored in ENCODINGS under that name.
C2_SameObject ==
    /\ \A n \in Names : \A o \in returned[n] : o # NoObj /\ o = firstStored[n]
    /\ \A n \in Names : \A t \in ReturnedBy(n) :
         ret[t].obj = firstStored[n] /\ ret[t].obj = ENCODINGS[n] /\ ret[t].obj \in built[n]

\* one call built the object and another got the same one from the fast path
C2_Witness ==
    \E n \in Names : \E t, u \in Threads :
        /\ {t, u} \subseteq ReturnedBy(n)
        /\ ret[t].path = "built" /\ ret[u].path = "fast"
        /\ ret[t].obj = ret[u].obj

\* C3 as stated: once the table build has failed because a name is registered by two
\* plugin modules, no Encoding of that name is ever constructed, cached or returned.
C3_DuplicateNeverConstructed ==
    buildError.kind = "DuplicateEncodingName" =>
        /\ buildError.name \notin Cached
        /\ built[buildError.name] = {}
        /\ ReturnedBy(buildError.name) = {}

\* C4 as stated: after a table build has failed, the table is unbuilt (None) whenever no
\* call is running inside the lock, and no call observes the names registered before
\* the failure.
C4_NoPartialTable ==
    (buildError # NoRet /\ lock.owner = NoThread) =>
        /\ ENCODING_CONSTRUCTORS.isNone
        /\ \A t \in Threads : Done(t) => ret[t].kind \notin {"names", "Encoding"}

\* C5 as stated: after a failed table build, every later call builds the table again from
\* the first module, so it ends with the same error as the failed build.
C5_FailedBuildRunsAgain ==
    buildError # NoRet =>
        \A t \in Threads : Done(t) => ret[t] = buildError

\* C6: a get_encoding(name) ended by an exception of the factory or the builder gives that
\* exception to its caller, has stored nothing in ENCODINGS and holds no lock; nothing but
\* a built Encoding is ever cached, and the name stays registered, so that the next call
\* for it runs the factory again.
C6_FailedConstructionNotCached ==
    /\ \A t \in Threads :
         (Done(t) /\ ret[t].kind \in ConstructErrorKinds) =>
             /\ ret[t].name = arg[t]
             /\ callWrites[t] = {}
             /\ lock.owner # t
             /\ arg[t] \in TableNames(ENCODING_CONSTRUCTORS)
             /\ failed[arg[t]] >= 1
    /\ \A n \in Names :
         /\ n \in Cached => ENCODINGS[n] \in built[n]
         /\ (failed[n] >= 1 /\ n \notin Cached) => built[n] = {}
    /\ \A t \in Threads :
         (Done(t) /\ ret[t].kind = "Encoding" /\ ret[t].path = "built") =>
             factoryCalls[arg[t]] = failed[arg[t]] + 1

\* a construction failed, and a later call for the same name ran the factory again and
\* cached the Encoding
C6_Witness ==
    \E t \in Threads :
        /\ Done(t) /\ ret[t].kind = "Encoding" /\ ret[t].path = "built"
        /\ failed[arg[t]] = 1 /\ factoryCalls[arg[t]] = 2

\* the names of the well-formed plugin modules, in enumeration order and then in
\* registration order, each once
RECURSIVE Contributed(_)
Contributed(i) ==
    IF i = 0 THEN <<>>
    ELSE LET before == Contributed(i - 1)
             seen == {before[k] : k \in 1..Len(before)}
             encs == IF PLUGINS[i].kind = "ok" THEN PLUGINS[i].encs ELSE <<>>
         IN before \o SelectSeq(encs, LAMBDA e : e \notin seen)

\* C7 as stated: every list list_encoding_names returns holds exactly the names of all
\* plugin modules, each once, in enumeration order and then registration order.
C7_ListComplete ==
    \A t \in Threads :
        (Done(t) /\ ret[t].kind = "names") => ret[t].names = Contributed(Len(PLUGINS))

\* the step is one of thread t
StepOf(t) == <<pc[t], modIdx[t], itemIdx[t], ret[t]>> # <<pc'[t], modIdx'[t], itemIdx'[t], ret'[t]>>
               \/ calls' # calls

\* C8: no step of a list_encoding_names call changes ENCODINGS or invokes a factory or
\* the builder, also when the call builds the table.
C8_ListBuildsNothing ==
    [][\A t \in Threads :
         (op'[t] = "list" /\ StepOf(t)) =>
             UNCHANGED <<ENCODINGS, factoryCalls, builderCalls, built, nextObj>>]_vars

\* a list_encoding_names call built a table of two names and returned them, and nothing
\* was constructed
C8_Witness ==
    \E t \in Threads :
        /\ Done(t) /\ op[t] = "list" /\ ret[t].kind = "names" /\ Len(ret[t].names) = 2
        /\ modIdx[t] > 0
        /\ Cached = {} /\ \A n \in Names : factoryCalls[n] = 0

\* C9: get_encoding(name) for a name that is no key of the table fails with
\* UnknownEncoding carrying the whole list of plugin modules of the enumerator, without
\* invoking a factory; a factory runs only for a name of the table.
C9_UnknownEncoding ==
    /\ \A t \in Threads :
         (Done(t) /\ ret[t].kind = "UnknownEncoding") =>
             /\ op[t] = "get" /\ ret[t].name = arg[t] /\ ret[t].exc = "ValueError"
             /\ ret[t].plugins = available_plugin_modules
             /\ arg[t] \notin TableNames(ENCODING_CONSTRUCTORS)
             /\ callInvoked[t] = {}
    /\ \A t \in Threads :
         (Constructing(t)
            \/ (Done(t) /\ ret[t].kind \in ConstructErrorKinds \cup {"Encoding"})) =>
             arg[t] \in TableNames(ENCODING_CONSTRUCTORS)
    /\ \A t \in Threads :
         (Done(t) /\ op[t] = "get" /\ ret[t].kind \notin BuildErrorKinds
                  /\ arg[t] \notin TableNames(ENCODING_CONSTRUCTORS)) =>
             ret[t].kind = "UnknownEncoding"

\* a name no plugin registers was asked for in a process whose plugin modules register
\* another name
C9_Witness ==
    \E t \in Threads :
        /\ Done(t) /\ ret[t].kind = "UnknownEncoding"
        /\ Len(ret[t].plugins) >= 1
        /\ TableNames(ENCODING_CONSTRUCTORS) # {}
        /\ buildError = NoRet

\* C10: a get_encoding call that fails with UnknownEncoding has stored nothing in
\* ENCODINGS, and the step that raises leaves ENCODINGS as it is.
C10_UnknownLeavesCache ==
    /\ [](\A t \in Threads :
            (Done(t) /\ ret[t].kind = "UnknownEncoding") => callWrites[t] = {})
    /\ [][\A t \in Threads :
            (pc[t] # "done" /\ pc'[t] = "done" /\ ret'[t].kind = "UnknownEncoding") =>
                ENCODINGS' = ENCODINGS]_vars

\* an unknown name was asked for while another name was cached, and the cache still
\* holds that entry alone
C10_Witness ==
    \E t \in Threads :
        /\ Done(t) /\ ret[t].kind = "UnknownEncoding"
        /\ Cached # {} /\ arg[t] \notin Cached
        /\ \A n \in Cached : ENCODINGS[n] = firstStored[n]

\* some thread is inside the scan of _find_constructors
Building == \E t \in Threads : pc[t] \in {"f_import", "f_item"}

\* C11: every plugin module is imported at most once in the process; once the table is
\* built, no step of any call imports a module or changes the table.
C11_ImportedOnce ==
    /\ [](\A i \in 1..Len(PLUGINS) : importCalls[i] <= 1)
    /\ [][(~ENCODING_CONSTRUCTORS.isNone /\ ~Building) =>
              UNCHANGED <<ENCODING_CONSTRUCTORS, importCalls>>]_vars

\* two plugin modules were imported once each by the first call, and two more calls have
\* run to their end on the table it built
C11_Witness ==
    /\ Len(PLUGINS) = 2 /\ buildError = NoRet
    /\ Len(ENCODING_CONSTRUCTORS.items) = 2
    /\ \A i \in 1..Len(PLUGINS) : importCalls[i] = 1
    /\ calls = 3 /\ \A t \in Threads : pc[t] = "done"

\* C12: ENCODINGS grows monotonically: in every step every entry keeps its key and its
\* object; no entry is removed or replaced.
C12_CacheMonotone ==
    [][\A n \in Names : ENCODINGS[n] # NoObj => ENCODINGS'[n] = ENCODINGS[n]]_vars

\* a second entry was added to the cache and the first one is still the object first
\* stored under its name
C12_Witness ==
    /\ Cached = {"x", "y"}
    /\ ENCODINGS["x"] # ENCODINGS["y"]
    /\ \A n \in Cached : ENCODINGS[n] = firstStored[n]

\* the step moves thread t forward inside its call
Moves(t) == <<pc[t], modIdx[t], itemIdx[t]>> # <<pc'[t], modIdx'[t], itemIdx'[t]>>

\* C13: every write to ENCODING_CONSTRUCTORS (its creation and each insertion) and every
\* write to ENCODINGS is a step of a thread that holds the lock when it writes.
C13_WritesUnderLock ==
    [][(ENCODINGS' # ENCODINGS \/ ENCODING_CONSTRUCTORS' # ENCODING_CONSTRUCTORS) =>
           \E t \in Threads :
               /\ Moves(t)
               /\ (lock.owner = t /\ lock.count >= 1) \/ (lock'.owner = t /\ lock'.count >= 1)]_vars

\* a thread is registering names inside both with-blocks while another thread waits
\* for the lock
C13_Witness ==
    \E t, u \in Threads :
        /\ t # u
        /\ lock.owner = t /\ lock.count = 2
        /\ pc[t] = "f_item" /\ Len(ENCODING_CONSTRUCTORS.items) >= 1
        /\ pc[u] \in {"g_lock", "l_lock"}

\* C14: a get_encoding(name) for a name already in ENCODINGS never goes to the lock: the
\* call returns the cached object in its first step, whoever holds the lock, and no call
\* changes the lock when it starts.
C14_FastPathLockFree ==
    /\ [][\A t \in Threads :
            (pc[t] # "g_lock" /\ pc'[t] = "g_lock") => arg'[t] \notin Cached]_vars
    /\ [][calls' # calls => lock' = lock]_vars
    /\ [](\A t \in Threads :
            (Done(t) /\ ret[t].kind = "Encoding" /\ ret[t].path = "fast") =>
                ret[t].obj = firstStored[ret[t].name])

\* a cached name was returned by the fast path while another thread held the lock to
\* construct another name
C14_Witness ==
    \E t, u \in Threads :
        /\ t # u
        /\ Done(t) /\ ret[t].kind = "Encoding" /\ ret[t].path = "fast"
        /\ ret[t].lockHeld
        /\ lock.owner = u /\ Constructing(u) /\ arg[u] # ret[t].name

\* the rank in the scan of the plugin module named m
ModIndex(m) == CHOOSE i \in 1..Len(ModNames) : ModNames[i] = m

\* C15 as stated: the failure kinds of the table build tell the causes apart: a module
\* that could not be imported yields PluginLoadFailure with the import's own exception,
\* and MalformedPlugin is raised only for a module that was imported and does not define
\* ENCODING_CONSTRUCTORS.
C15_LoadErrorNotMalformed ==
    \A t \in Threads :
        Done(t) =>
            /\ ret[t].kind = "MalformedPlugin" => PLUGINS[ModIndex(ret[t].mod)].kind = "noattr"
            /\ ret[t].kind = "PluginLoadFailure" =>
                   PLUGINS[ModIndex(ret[t].mod)].kind \in {"importerr", "import_attrerr"}

\* C16 as stated: a get_encoding(name) that was called while another thread was
\* constructing that name finds the entry once it has the lock and returns it without
\* running the factory or the builder.
C16_WaiterFindsEntry ==
    \A u \in Threads :
        (Done(u) /\ ret[u].midBuild) => (ret[u].path = "recheck" /\ callInvoked[u] = {})

\* C16, amended: a thread constructing a name owns the lock, and a get_encoding waiting at
\* the lock cannot pass its owner; a call that takes the lock and finds its name cached
\* returns that entry without running the factory or the builder; and a call that was
\* made while another thread was constructing its name builds the Encoding itself only
\* when a construction of that name has ended in an exception.
C16_WaiterRechecks ==
    /\ [](\A t \in Threads : Constructing(t) => lock.owner = t /\ lock.count = 1)
    /\ [](\A u \in Threads :
            (pc[u] = "g_lock" /\ lock.owner \notin {NoThread, u}) => ~ENABLED GetLock(u))
    /\ [][\A u \in Threads :
            (pc[u] = "g_lock" /\ pc'[u] # "g_lock" /\ arg[u] \in Cached) =>
                /\ pc'[u] = "done"
                /\ ret'[u].kind = "Encoding" /\ ret'[u].path = "recheck"
                /\ ret'[u].obj = ENCODINGS[arg[u]]
                /\ UNCHANGED <<ENCODINGS, factoryCalls, builderCalls>>]_vars
    /\ [](\A u \in Threads :
            (Done(u) /\ ret[u].midBuild) =>
                \/ ret[u].path = "recheck" /\ callInvoked[u] = {}
                \/ ret[u].path = "built" /\ failed[ret[u].name] >= 1)

\* a call made while another thread was constructing the name, and holding the lock,
\* got the entry on the check inside the lock; the factory ran once
C16_Witness ==
    \E u \in Threads :
        /\ Done(u) /\ ret[u].midBuild /\ ret[u].path = "recheck"
        /\ callInvoked[u] = {}
        /\ factoryCalls[ret[u].name] = 1 /\ builderCalls[ret[u].name] = 1

\* the names module i registers (none when it is not imported or defines no mapping)
EncsOf(i) == IF PLUGINS[i].kind = "ok" THEN PLUGINS[i].encs ELSE <<>>
\* item k of module j is a name that an earlier module registers too
Collides(j, k) ==
    /\ k \in 1..Len(EncsOf(j))
    /\ \E i \in 1..(j - 1) : \E h \in 1..Len(EncsOf(i)) : EncsOf(i)[h] = EncsOf(j)[k]
Collisions ==
    UNION {{<<j, k>> : k \in {h \in 1..Len(EncsOf(j)) : Collides(j, h)}} : j \in 1..Len(PLUGINS)}
\* the first collision of the scan: the least module, then the least item
FirstCollision ==
    CHOOSE jk \in Collisions :
        \A o \in Collisions : jk[1] < o[1] \/ (jk[1] = o[1] /\ jk[2] <= o[2])
\* a module before module j cannot be imported or defines no mapping
FailsBefore(j) == \E i \in 1..(j - 1) : PLUGINS[i].kind # "ok"
\* the one table build of the process is over
BuildOver == ~ENCODING_CONSTRUCTORS.isNone /\ ~Building

\* C17 as stated: the table build fails with DuplicateEncodingName exactly when some name
\* is registered by two different plugin modules, with that name and the later module,
\* at the first collision of the scan.
C17_DuplicateIffShared ==
    BuildOver =>
        /\ buildError.kind = "DuplicateEncodingName" <=> Collisions # {}
        /\ buildError.kind = "DuplicateEncodingName" =>
               /\ buildError.name = EncsOf(FirstCollision[1])[FirstCollision[2]]
               /\ buildError.mod = ModName(FirstCollision[1])

\* C17, amended: the table build fails with DuplicateEncodingName exactly when some name
\* is registered by two different plugin modules and no module before the later of them
\* fails to import or lacks the mapping; the error carries that name and the later
\* module, those of the first collision of the scan.
C17_DuplicateAtFirstCollision ==
    BuildOver =>
        /\ buildError.kind = "DuplicateEncodingName" <=>
               \E jk \in Collisions : ~FailsBefore(jk[1])
        /\ buildError.kind = "DuplicateEncodingName" =>
               /\ buildError.name = EncsOf(FirstCollision[1])[FirstCollision[2]]
               /\ buildError.mod = ModName(FirstCollision[1])
               /\ buildError.exc = "ValueError"

\* the third module registers a name of the first, after a second module without
\* collision, and a call has raised the error naming the third module
C17_Witness ==
    /\ Len(PLUGINS) = 3
    /\ buildError.kind = "DuplicateEncodingName"
    /\ buildError.mod = ModName(3)
    /\ \E t \in Threads : Done(t) /\ ret[t] = buildError

InCall(t) == pc[t] \notin {"idle", "done"}

\* C18: a thread that enters the table builder holds the lock and takes it a second time
\* without blocking, and under fair scheduling every call of get_encoding and of
\* list_encoding_names, by any thread, eventually returns or raises: a call ends only by
\* returning or raising, and from some point on no thread is inside a call (a run makes
\* at most MaxCalls calls, so a call that never ended would stay inside for ever).
C18_EveryCallReturns ==
    /\ [](\A t \in Threads :
            pc[t] = "f_enter" => (lock.owner = t /\ lock.count = 1 /\ ENABLED FindEnter(t)))
    /\ [](\A t \in Threads :
            pc[t] \in {"f_import", "f_item"} => (lock.owner = t /\ lock.count = 2))
    /\ [][\A t \in Threads : (InCall(t) /\ ~InCall(t)') => Done(t)']_vars
    /\ <>[](\A t \in Threads : ~InCall(t))

\* every call of the run has ended, the first of them built the table inside both
\* with-blocks, and a get_encoding call that went to the lock while another thread held
\* it to construct the same name has returned its Encoding
C18_Witness ==
    /\ calls = MaxCalls /\ \A t \in Threads : Done(t)
    /\ lock = FreeLock
    /\ Len(PLUGINS) >= 1 /\ \A i \in 1..Len(PLUGINS) : importCalls[i] = 1
    /\ \E u \in Threads :
         ret[u].kind = "Encoding" /\ ret[u].midBuild

\* C19: every name in ENCODINGS is a key of ENCODING_CONSTRUCTORS, and ENCODINGS is empty
\* as long as ENCODING_CONSTRUCTORS is None.
C19_CachedNamesRegistered ==
    /\ Cached \subseteq TableNames(ENCODING_CONSTRUCTORS)
    /\ ENCODING_CONSTRUCTORS.isNone => Cached = {}

\* one of two registered names has been constructed and cached, and the other has not
C19_Witness ==
    /\ Cardinality(TableNames(ENCODING_CONSTRUCTORS)) = 2
    /\ Cardinality(Cached) = 1
    /\ \E t \in Threads : Done(t) /\ ret[t].kind = "Encoding" /\ ret[t].path = "built"

\* C20: the lock is released on every exit of every operation, by return or by any of the
\* exceptions: only a thread inside a call, past its with-statement, owns the lock; the
\* lock is free whenever no thread is inside a call; and a call that has ended, however
\* it ended, holds nothing.
C20_LockReleasedOnExit ==
    /\ (lock.owner = NoThread) <=> (lock.count = 0)
    /\ \A t \in Threads :
         lock.owner = t => (InCall(t) /\ pc[t] \notin {"g_lock", "l_lock"})
    /\ (\A t \in Threads : ~InCall(t)) => lock = FreeLock
    /\ \A t \in Threads : Done(t) => lock.owner # t

\* a call raised the error of the table build from inside both with-blocks, and a
\* list_encoding_names call of another thread has since taken the lock and returned
C20_Witness ==
    \E t, u \in Threads :
        /\ t # u
        /\ Done(t) /\ buildError # NoRet /\ ret[t] = buildError
        /\ Done(u) /\ ret[u].kind = "names"
        /\ lock = FreeLock

====
